---------------------------- MODULE Spec2Model ----------------------------
(***************************************************************************)
(* Alert grouping of the perf dashboard                                    *)
(* (dashboard/dashboard/models/alert_group.py).                            *)
(*                                                                         *)
(* The datastore of AlertGroup entities is a sequence; the key of a group  *)
(* is its index.  A Python value that may be None is a sequence of length  *)
(* at most one: None is <<>> and the value x is <<x>>.                     *)
(***************************************************************************)
EXTENDS Integers, Sequences, FiniteSets, TLC

\* Revisions are 1..MaxRev.
MaxRev == 2
\* Longest list of alerts passed to one GroupAlerts call.
MaxBatch == 2
\* Most alerts passed to GroupAlerts over a run.
MaxAlerts == 2
\* Longest list of alerts passed to GetMinimumRange.
MaxLen == 4

\* Max number of AlertGroup entities to fetch.
_MAX_GROUPS_TO_FETCH == 2000

None == <<>>
Some(x) == <<x>>

Revisions == 1..MaxRev
TestSuites == {"sunspider", "octane"}
Kinds == {"Anomaly", "StoppageAlert"}
\* Issue tracker ids the triage handlers give to a group, and the one an
\* alert may already carry when it is passed in.
GroupBugIds == {12345}
AlertBugIds == {None, Some(777)}

VARIABLES
  datastore,    \* the stored AlertGroup entities, by key
  anomalies,    \* the alerts passed to GroupAlerts so far: range and group
  call,         \* the GroupAlerts call that has just returned, if it had alerts
  min_alerts,   \* argument of GetMinimumRange
  min_range     \* Some(what GetMinimumRange returned for it), None before

vars == <<datastore, anomalies, call, min_alerts, min_range>>

----------------------------------------------------------------------------
\* Alert entities: a revision range, the improvement flag, a bug id and the
\* key of the group.
Alert(start, end, improvement, bug) ==
  [start_revision |-> start, end_revision |-> end,
   is_improvement |-> improvement, bug_id |-> bug, group |-> None]

\* The alerts a caller passes: start_revision <= end_revision.  GroupAlerts
\* drops the improvements before it reads anything else of them, so one
\* range stands for theirs.
ValidAlerts ==
  {Alert(r[1], r[2], FALSE, b) :
     r \in {q \in Revisions \X Revisions : q[1] <= q[2]}, b \in AlertBugIds}
  \cup {Alert(1, MaxRev, TRUE, b) : b \in AlertBugIds}

RECURSIVE SeqsUpTo(_, _)
SeqsUpTo(S, n) ==
  IF n = 0 THEN {<<>>}
  ELSE LET shorter == SeqsUpTo(S, n - 1)
       IN  shorter \cup {Append(s, x) : s \in {t \in shorter : Len(t) = n - 1},
                                        x \in S}

----------------------------------------------------------------------------
\* GetMinimumRange: the loop over alerts[1:], then the function.
RECURSIVE MinimumRangeLoop(_, _, _, _)
MinimumRangeLoop(alerts, i, start, end) ==
  IF i > Len(alerts) THEN <<start, end>>
  ELSE LET a == alerts[i]
           start1 == IF a.start_revision > start THEN a.start_revision
                     ELSE start
           end1 == IF a.end_revision < end THEN a.end_revision ELSE end
       IN  IF a.start_revision > start /\ a.start_revision >= end THEN None
           ELSE IF a.end_revision < end /\ a.end_revision <= start1 THEN None
           ELSE MinimumRangeLoop(alerts, i + 1, start1, end1)

GetMinimumRange(alerts) ==
  IF alerts = <<>> THEN None
  ELSE MinimumRangeLoop(alerts, 2, alerts[1].start_revision,
                        alerts[1].end_revision)

----------------------------------------------------------------------------
\* _IsOverlapping
_IsOverlapping(alert_entity, start, end) ==
  /\ alert_entity.start_revision <= end
  /\ alert_entity.end_revision >= start

\* A truthy bug_id: neither None nor 0.
Truthy(bug_id) == bug_id # None /\ bug_id[1] # 0

\* A faulty _AddAlertToGroup, without lines 158-161: the start_revision of
\* the group is never raised.
AddedGroup_StartKept(alert_entity, group) ==
  LET end == IF alert_entity.end_revision < group.end_revision
             THEN alert_entity.end_revision ELSE group.end_revision
  IN  [group EXCEPT !.end_revision = end]

\* _AddAlertToGroup: the group as it is left (and put, if it changed).
AddedGroup(alert_entity, group) ==
  LET start == IF alert_entity.start_revision > group.start_revision
               THEN alert_entity.start_revision ELSE group.start_revision
      end == IF alert_entity.end_revision < group.end_revision
             THEN alert_entity.end_revision ELSE group.end_revision
  IN  [group EXCEPT !.start_revision = start, !.end_revision = end]

\* A faulty _AddAlertToGroup, without lines 168-170: the bug_id of the group
\* is not passed on.
AddedAlert_BugIdKept(alert_entity, group, key) ==
  [alert_entity EXCEPT !.group = Some(key)]

\* _AddAlertToGroup: the alert as it is left; key is group.key.
AddedAlert(alert_entity, group, key) ==
  [alert_entity EXCEPT
     !.bug_id = IF Truthy(group.bug_id) THEN group.bug_id ELSE @,
     !.group = Some(key)]

\* _CreateGroupForAlert: the new AlertGroup.
CreatedGroup(alert_entity, test_suite, kind) ==
  [bug_id |-> None,
   start_revision |-> alert_entity.start_revision,
   end_revision |-> alert_entity.end_revision,
   test_suites |-> <<test_suite>>,
   alert_kind |-> kind]

\* _CreateGroupForAlert: the alert as it is left; key is the new group's.
CreatedAlert(alert_entity, key) == [alert_entity EXCEPT !.group = Some(key)]

\* A faulty condition, without line 136: a group of any kind matches.
Matches_AnyKind(alert_entity, group, test_suite, kind) ==
  /\ _IsOverlapping(alert_entity, group.start_revision, group.end_revision)
  /\ \E j \in 1..Len(group.test_suites) : group.test_suites[j] = test_suite

\* The condition of _FindAlertGroup's loop.
Matches(alert_entity, group, test_suite, kind) ==
  /\ _IsOverlapping(alert_entity, group.start_revision, group.end_revision)
  /\ group.alert_kind = kind
  /\ \E j \in 1..Len(group.test_suites) : group.test_suites[j] = test_suite

\* _FindAlertGroup's loop from the i-th group of the list on: the position in
\* groups of the first group that matches, 0 if there is none.  groups holds
\* keys; store holds the entities, as they are at this point of the call.
RECURSIVE FindFrom(_, _, _, _, _, _)
FindFrom(alert_entity, groups, store, test_suite, kind, i) ==
  IF i > Len(groups) THEN 0
  ELSE IF Matches(alert_entity, store[groups[i]], test_suite, kind) THEN i
  ELSE FindFrom(alert_entity, groups, store, test_suite, kind, i + 1)

\* A faulty _FindAlertGroup, which goes on through the groups that are
\* stored but not in the list, such as those created since the fetch.
_FindAlertGroup_Stored(alert_entity, groups, store, test_suite, kind) ==
  LET fetched == {groups[i] : i \in 1..Len(groups)}
      others == SelectSeq([i \in 1..Len(store) |-> i],
                          LAMBDA key : key \notin fetched)
      all == groups \o others
      pos == FindFrom(alert_entity, all, store, test_suite, kind, 1)
  IN  IF pos = 0 THEN 0 ELSE all[pos]

\* _FindAlertGroup: the key of the group found and assigned, 0 for False.
_FindAlertGroup(alert_entity, groups, store, test_suite, kind) ==
  LET pos == FindFrom(alert_entity, groups, store, test_suite, kind, 1)
  IN  IF pos = 0 THEN 0 ELSE groups[pos]

----------------------------------------------------------------------------
\* GroupAlerts, the filter: the positions in alerts of the alerts that are
\* not improvements, in the order of the list.
RECURSIVE FilteredFrom(_, _)
FilteredFrom(alerts, i) ==
  IF i > Len(alerts) THEN <<>>
  ELSE IF alerts[i].is_improvement THEN FilteredFrom(alerts, i + 1)
  ELSE <<i>> \o FilteredFrom(alerts, i + 1)

\* A faulty filter, without line 90: the improvements stay in the list.
Filtered_Nothing(alerts) == [i \in 1..Len(alerts) |-> i]

Filtered(alerts) == FilteredFrom(alerts, 1)

\* GroupAlerts, the sort: sorted() by end_revision is stable, so a position
\* goes after every position whose alert has a smaller or equal key.
RECURSIVE Sorted(_, _)
Sorted(alerts, positions) ==
  IF positions = <<>> THEN <<>>
  ELSE LET n == Len(positions)
           rest == Sorted(alerts, SubSeq(positions, 1, n - 1))
           p == positions[n]
           k == Cardinality({j \in 1..Len(rest) :
                   alerts[rest[j]].end_revision <= alerts[p].end_revision})
       IN  SubSeq(rest, 1, k) \o <<p>> \o SubSeq(rest, k + 1, Len(rest))

\* One AlertGroup query of _FetchAlertGroups: the keys of the groups with
\* start_revision <= max_start_revision by descending start_revision, at most
\* _MAX_GROUPS_TO_FETCH of them.  Groups of equal start_revision come in the
\* order of their keys, which the datastore allocates in no particular order:
\* every order of them is a possible result.
QueryResults(store, max_start_revision) ==
  LET keys == {k \in 1..Len(store) :
                 store[k].start_revision <= max_start_revision}
      n == Cardinality(keys)
      limit == IF n < _MAX_GROUPS_TO_FETCH THEN n ELSE _MAX_GROUPS_TO_FETCH
      orders == {f \in [1..n -> keys] :
                   /\ \A i, j \in 1..n : i # j => f[i] # f[j]
                   /\ \A i, j \in 1..n :
                        i < j => store[f[i]].start_revision
                                   >= store[f[j]].start_revision}
  IN  {SubSeq(f, 1, limit) : f \in orders}

\* _FetchAlertGroups: the list of the first query, extended with the result
\* of legacy_query, which line 111 rebuilds from the first query.  The
\* context cache of ndb gives one instance per key, so the list holds keys.
_FetchAlertGroups(store, max_start_revision) ==
  {q \o q : q \in QueryResults(store, max_start_revision)}

\* GroupAlerts, the loop, from the i-th alert of the sorted list on.
\* st.store is the datastore, st.alerts the entities passed by the caller,
\* st.steps records what was done: for each alert its position in the
\* caller's list, the datastore as the alert found it, whether a group was
\* found and the key of the group assigned.
RECURSIVE GroupLoop(_, _, _, _, _, _)
GroupLoop(order, i, groups, test_suite, kind, st) ==
  IF i > Len(order) THEN st
  ELSE LET p == order[i]
           alert_entity == st.alerts[p]
           assigned == _FindAlertGroup(alert_entity, groups, st.store,
                                       test_suite, kind)
           found == assigned # 0
           key == IF found THEN assigned ELSE Len(st.store) + 1
           group == IF found THEN AddedGroup(alert_entity, st.store[key])
                    ELSE CreatedGroup(alert_entity, test_suite, kind)
           entity == IF found THEN AddedAlert(alert_entity, group, key)
                     ELSE CreatedAlert(alert_entity, key)
           next == [store |-> IF found THEN [st.store EXCEPT ![key] = group]
                              ELSE Append(st.store, group),
                    alerts |-> [st.alerts EXCEPT ![p] = entity],
                    steps |-> Append(st.steps,
                                [alert |-> p, store |-> st.store,
                                 found |-> found, key |-> key])]
       IN  GroupLoop(order, i + 1, groups, test_suite, kind, next)

\* The record kept of a GroupAlerts call: its arguments, the list fetched,
\* the datastore before and after, the alerts as it left them and its steps.
CallRecord(alerts, test_suite, kind, groups, before, after, result, steps) ==
  [alerts |-> alerts, test_suite |-> test_suite, kind |-> kind,
   groups |-> groups, before |-> before, after |-> after,
   result |-> result, steps |-> steps]

NoCall == CallRecord(<<>>, "", "", <<>>, <<>>, <<>>, <<>>, <<>>)

----------------------------------------------------------------------------
Init ==
  /\ datastore = <<>>
  /\ anomalies = <<>>
  /\ call = NoCall
  /\ min_alerts = <<>>
  /\ min_range = None

\* What is kept of the alerts of a call once it has returned: the range and
\* the group key of each, with the arguments it was grouped under.
Passed(alerts, test_suite, kind) ==
  [i \in 1..Len(alerts) |->
     [start_revision |-> alerts[i].start_revision,
      end_revision |-> alerts[i].end_revision,
      group |-> alerts[i].group,
      test_suite |-> test_suite, kind |-> kind]]

\* The lists of alerts passed to GroupAlerts, by length.
Batches ==
  [n \in 0..MaxBatch |->
     {alerts \in SeqsUpTo(ValidAlerts, MaxBatch) : Len(alerts) = n}]

\* GroupAlerts(alerts, test_suite, kind)
GroupAlerts(alerts, test_suite, kind) ==
  LET order == Sorted(alerts, Filtered(alerts))
  IN  /\ Len(anomalies) < MaxAlerts
      /\ Len(anomalies) + Len(alerts) <= MaxAlerts
      /\ UNCHANGED <<min_alerts, min_range>>
      /\ IF alerts = <<>>
         THEN \* line 89: nothing was read but the empty list
              /\ UNCHANGED <<datastore, anomalies>>
              /\ call' = NoCall
         ELSE IF order = <<>>
         THEN \* line 93
              /\ UNCHANGED datastore
              /\ anomalies' = anomalies \o Passed(alerts, test_suite, kind)
              /\ call' = CallRecord(alerts, test_suite, kind, <<>>,
                                    datastore, datastore, alerts, <<>>)
         ELSE \E groups \in _FetchAlertGroups(datastore,
                              alerts[order[Len(order)]].end_revision) :
                LET st == GroupLoop(order, 1, groups, test_suite, kind,
                                    [store |-> datastore, alerts |-> alerts,
                                     steps |-> <<>>])
                IN  /\ datastore' = st.store
                    /\ anomalies' = anomalies \o
                                      Passed(st.alerts, test_suite, kind)
                    /\ call' = CallRecord(alerts, test_suite, kind, groups,
                                          datastore, st.store, st.alerts,
                                          st.steps)

\* A triage handler gives a group its bug.
AssociateBug(key, bug_id) ==
  /\ Len(anomalies) < MaxAlerts
  /\ key \in 1..Len(datastore)
  /\ datastore[key].bug_id = None
  /\ datastore' = [datastore EXCEPT ![key].bug_id = Some(bug_id)]
  /\ call' = NoCall
  /\ UNCHANGED <<anomalies, min_alerts, min_range>>

\* A list of n alerts is passed while the run has room for n more alerts; a
\* group is given its bug.
Next ==
  \/ \E n \in 0..MaxBatch :
       /\ Len(anomalies) + n <= MaxAlerts
       /\ \E alerts \in Batches[n], test_suite \in TestSuites,
             kind \in Kinds :
            GroupAlerts(alerts, test_suite, kind)
  \/ \E key \in 1..MaxAlerts, bug_id \in GroupBugIds :
       AssociateBug(key, bug_id)

Spec == Init /\ [][Next]_vars

----------------------------------------------------------------------------
\* GetMinimumRange applied to every list of at most MaxLen ranges.
Ranges ==
  {Alert(s, e, FALSE, None) : s \in Revisions, e \in Revisions}

InitMin ==
  /\ datastore = <<>>
  /\ anomalies = <<>>
  /\ call = NoCall
  /\ min_alerts \in SeqsUpTo({a \in Ranges :
                                a.start_revision <= a.end_revision}, MaxLen)
  /\ min_range = None

CallGetMinimumRange ==
  /\ min_range = None
  /\ min_range' = Some(GetMinimumRange(min_alerts))
  /\ UNCHANGED <<datastore, anomalies, call, min_alerts>>

NextMin == CallGetMinimumRange

SpecMin == InitMin /\ [][NextMin]_vars

----------------------------------------------------------------------------
\* The alerts whose group key points to the group of this key.
Members(key) ==
  {i \in 1..Len(anomalies) : anomalies[i].group = Some(key)}

Keys(store) == 1..Len(store)

\* The steps of the call that has just returned.
Steps == 1..Len(call.steps)

\* The alert of a step, as it was passed and as it was left.
Given(n) == call.alerts[call.steps[n].alert]
Left(n) == call.result[call.steps[n].alert]

\* The keys in the list fetched by the call.
Fetched == {call.groups[i] : i \in 1..Len(call.groups)}

\* The alert of step n and this group agree in kind and test suite and
\* their ranges, taken as closed, have a revision in common.
Agree(n, group) ==
  /\ group.alert_kind = call.kind
  /\ \E j \in 1..Len(group.test_suites) :
       group.test_suites[j] = call.test_suite
  /\ Given(n).start_revision <= group.end_revision
  /\ Given(n).end_revision >= group.start_revision

C2_MinimumRangeIsIntersection ==
  (min_range # None /\ min_alerts # <<>>) =>
    LET n == Len(min_alerts)
        start == CHOOSE s \in Revisions :
                   /\ \E i \in 1..n : min_alerts[i].start_revision = s
                   /\ \A i \in 1..n : min_alerts[i].start_revision <= s
        end == CHOOSE e \in Revisions :
                 /\ \E i \in 1..n : min_alerts[i].end_revision = e
                 /\ \A i \in 1..n : min_alerts[i].end_revision >= e
    IN  min_range[1] = IF start <= end THEN <<start, end>> ELSE None

\* C3: after a call exactly the alerts that are not improvements have a
\* group: a fetched group that matched when the alert's turn came, or, if and
\* only if no fetched group matched then, a new stored group with the alert's
\* own range, [test_suite] and kind.  An improvement is left as it was, and
\* no group other than the assigned ones is created or changed.
C3_GroupAssignedOrCreated ==
  /\ \A p \in 1..Len(call.alerts) :
       IF call.alerts[p].is_improvement
       THEN /\ call.result[p] = call.alerts[p]
            /\ \A n \in Steps : call.steps[n].alert # p
       ELSE /\ call.alerts[p].group = None
            /\ call.result[p].group # None
            /\ Cardinality({n \in Steps : call.steps[n].alert = p}) = 1
  /\ \A n \in Steps :
       LET step == call.steps[n]
           matching == {key \in Fetched : Agree(n, step.store[key])}
       IN  /\ Left(n).group = Some(step.key)
           /\ step.found <=> matching # {}
           /\ step.found => step.key \in matching
           /\ ~step.found =>
                /\ step.key \notin Keys(call.before)
                /\ step.key \in Keys(call.after)
                /\ call.after[step.key].start_revision
                     = Given(n).start_revision
                /\ call.after[step.key].end_revision = Given(n).end_revision
                /\ call.after[step.key].test_suites = <<call.test_suite>>
                /\ call.after[step.key].alert_kind = call.kind
  /\ Len(call.after)
       = Len(call.before)
           + Cardinality({n \in Steps : ~call.steps[n].found})
  /\ \A key \in Keys(call.before) :
       (\A n \in Steps : call.steps[n].key # key) =>
          call.after[key] = call.before[key]

\* A call with an improvement and an alert for which a group was created.
C3_Witness ==
  /\ \E p \in 1..Len(call.alerts) : call.alerts[p].is_improvement
  /\ \E n \in Steps : ~call.steps[n].found
  /\ Len(call.after) > Len(call.before)

\* C4: an alert joins an existing group only if, at that moment, the group's
\* alert_kind is the alert's kind, the alert's test_suite is in the group's
\* test_suites and the alert's range overlaps the group's; so all alerts
\* that share a group were grouped with the same kind.
C4_AssignedOnlyToMatchingGroup ==
  /\ \A n \in Steps :
       LET step == call.steps[n]
       IN  step.found => Agree(n, step.store[step.key])
  /\ \A i, j \in 1..Len(anomalies) :
       (anomalies[i].group # None /\ anomalies[i].group = anomalies[j].group)
         => anomalies[i].kind = anomalies[j].kind

\* An alert joins a group whose range is not its own.
C4_Witness ==
  \E n \in Steps :
    LET step == call.steps[n]
        group == step.store[step.key]
    IN  /\ step.found
        /\ \/ Given(n).start_revision # group.start_revision
           \/ Given(n).end_revision # group.end_revision

\* C5: an alert that joins a group with a bug_id gets the group's bug_id; an
\* alert that joins a group without one, or for which a group is created,
\* keeps its bug_id, and the created group has no bug_id.
C5_BugIdFollowsGroup ==
  \A n \in Steps :
    LET step == call.steps[n]
    IN  IF step.found
        THEN IF step.store[step.key].bug_id # None
             THEN Left(n).bug_id = step.store[step.key].bug_id
             ELSE Left(n).bug_id = Given(n).bug_id
        ELSE /\ Left(n).bug_id = Given(n).bug_id
             /\ call.after[step.key].bug_id = None

\* An alert that had a bug_id joins a group with another bug_id.
C5_Witness ==
  \E n \in Steps :
    /\ call.steps[n].found
    /\ call.steps[n].store[call.steps[n].key].bug_id # None
    /\ Given(n).bug_id # None
    /\ Given(n).bug_id # Left(n).bug_id

\* C6: a call is one pass over the groups fetched at its start: the alerts
\* are taken in ascending end_revision, the candidates of every alert are the
\* groups that were stored before the call with start_revision at most the
\* largest end_revision of the alerts, a group created in the call is
\* assigned to one alert only, and so two alerts without a match get two
\* distinct new groups.
C6_SinglePassOverFetchedGroups ==
  LET ends == {Given(n).end_revision : n \in Steps}
  IN  /\ \A m, n \in Steps :
            m < n => Given(m).end_revision <= Given(n).end_revision
      /\ Steps # {} =>
           Fetched = {key \in Keys(call.before) :
                        \E e \in ends :
                          call.before[key].start_revision <= e}
      /\ \A n \in Steps : call.steps[n].found => call.steps[n].key \in Fetched
      /\ \A m, n \in Steps :
            (m # n /\ ~call.steps[m].found) =>
               call.steps[m].key # call.steps[n].key

\* Two alerts of one call with overlapping ranges and no match: the first is
\* given a new group, which matches the second, and the second is given
\* another.
C6_Witness ==
  \E m, n \in Steps :
    /\ m < n
    /\ ~call.steps[m].found
    /\ ~call.steps[n].found
    /\ Agree(n, call.after[call.steps[m].key])

=============================================================================
